---- MODULE Spec2Model ----
(***************************************************************************)
(* watchdir: a recursive inotify observer.                                 *)
(*                                                                         *)
(* The model has three layers.                                             *)
(*   - the file system and the kernel's inotify instance (the environment: *)
(*     directory entries, kernel watches, the queue of raw records);       *)
(*   - the path registry of src/path_tree.rs (Head / Node);                *)
(*   - the recognizer of src/lib.rs (Watcher::new, stream, recognize and   *)
(*     the watch installer add_watch / add_watch_all / rm_watch_all).      *)
(*                                                                         *)
(* A file name is a tuple of characters, a path a tuple of file names.     *)
(* Watch id 0 stands for Option::None, inode -1 for "no such entry",       *)
(* inode 0 for the directory outside the watched tree that holds the root. *)
(***************************************************************************)
EXTENDS Integers, Sequences, FiniteSets, TLC

VARIABLES
    fs,         \* inode -> [par, name, dir]: the directory entries
    kw,         \* kernel watches: wd -> inode
    nextWd,     \* the next watch id the kernel hands out
    cookie,     \* the cookie of the last rename that queued a record
    queue,      \* raw records readable from the inotify descriptor
    kpend,      \* records of the running system call not yet queued
    ops,        \* file-system operations performed so far
    pc,         \* "new" | "idle" | "walk" | "panic": where the observer is
    opts,       \* WatcherOpts.sub_dotdir
    top_wd,     \* Watcher.top_wd
    top_dir,    \* Watcher.top_dir
    path_tree,  \* Watcher.path_tree: [prefix, table, tree, nodes]
    cached,     \* Watcher.cached_inotify_event (NoRec for None)
    walk,       \* the subtree walk a stream arm is about to run
    out,        \* the events the last step handed to the consumer
    last,       \* what the last recognition read and did (history)
    printer     \* the Printer of the executable (NoPrinter: none built)

vars == <<fs, kw, nextWd, cookie, queue, kpend, ops, pc, opts, top_wd,
          top_dir, path_tree, cached, walk, out, last, printer>>

(***************************************************************************)
(* Bounds of the model.                                                    *)
(***************************************************************************)
MaxOps == 2
MaxIno == 4

Inodes == 1 .. MaxIno
RootIno == 1
Outside == 0
NoIno == -1
NoWd == 0

NameA == <<"a">>
NameB == <<"b">>
NameH == <<".", "h">>
NameR == <<"R">>
NameDR == <<".", "R">>
RootNames == {NameR, NameDR}
NoName == <<>>
Names == {NameA, NameB, NameH}

EmptyMap == [x \in {} |-> 0]
Put(f, k, v) == [x \in (DOMAIN f) \cup {k} |-> IF x = k THEN v ELSE f[x]]
Drop(f, k) == [x \in (DOMAIN f) \ {k} |-> f[x]]
Range(f) == {f[x] : x \in DOMAIN f}

IsPrefix(p, q) == Len(p) <= Len(q) /\ SubSeq(q, 1, Len(p)) = p
StripPrefix(p, q) == SubSeq(q, Len(p) + 1, Len(q))
PathParent(p) == SubSeq(p, 1, Len(p) - 1)
FileName(p) == p[Len(p)]

(***************************************************************************)
(* The path registry: src/path_tree.rs.                                    *)
(* A node is named by the value (watch id) it was created with; `nodes`    *)
(* holds the nodes some Arc still owns.  A Weak parent link upgrades iff   *)
(* the parent is still in `nodes`.  An operation returns                   *)
(* [err, pt, vals]: err = "" on Ok.                                        *)
(***************************************************************************)
NewNode(key, parent) == [key |-> key, parent |-> parent, children |-> EmptyMap]

HeadNew(prefix) ==
    [prefix |-> prefix, table |-> {}, tree |-> NoWd, nodes |-> EmptyMap]

Has(pt, value) == value \in pt.table

RECURSIVE NodeGet(_, _, _)
NodeGet(nodes, n, path) ==
    IF path = <<>> THEN n
    ELSE IF Head(path) \in DOMAIN nodes[n].children
         THEN NodeGet(nodes, nodes[n].children[Head(path)], Tail(path))
         ELSE NoWd

RECURSIVE NodePath(_, _)
NodePath(nodes, n) ==
    IF nodes[n].parent \in DOMAIN nodes
    THEN NodePath(nodes, nodes[n].parent) \o nodes[n].key
    ELSE nodes[n].key

RECURSIVE NodeValues(_, _), ForestValues(_, _)
NodeValues(nodes, n) ==
    {<<n>> \o s : s \in ForestValues(nodes, Range(nodes[n].children))}
ForestValues(nodes, S) ==
    IF S = {} THEN {<<>>}
    ELSE UNION {{a \o b : a \in NodeValues(nodes, c),
                          b \in ForestValues(nodes, S \ {c})} : c \in S}

RECURSIVE Closure(_, _)
Closure(nodes, S) ==
    LET T == S \cup UNION {Range(nodes[n].children) : n \in S}
    IN IF T = S THEN S ELSE Closure(nodes, T)

\* Dropping the last Arc of a node frees it: the nodes that stay are those
\* the table or the tree still own, and their descendants.
Collect(pt) ==
    LET roots == (pt.table \cup (IF pt.tree = NoWd THEN {} ELSE {pt.tree}))
                     \cap DOMAIN pt.nodes
        keep == Closure(pt.nodes, roots)
    IN [pt EXCEPT !.nodes = [n \in keep |-> pt.nodes[n]]]

Ok(pt) == [err |-> "", pt |-> Collect(pt), vals |-> <<>>]
Err(e, pt) == [err |-> e, pt |-> Collect(pt), vals |-> <<>>]

NodeInsert(pt, path, value) ==
    IF path = <<>> THEN Err("InvalidPath", pt)
    ELSE LET parent == NodeGet(pt.nodes, pt.tree, PathParent(path))
             key == FileName(path)
         IN IF parent = NoWd THEN Err("PathNotFound", pt)
            ELSE Ok([pt EXCEPT
                      !.nodes = Put([@ EXCEPT ![parent].children =
                                         Put(@, key, value)],
                                    value, NewNode(<<key>>, parent)),
                      !.table = @ \cup {value}])

HeadInsert(pt, path, value) ==
    IF ~IsPrefix(pt.prefix, path) THEN Err("PrefixMismatched", pt)
    ELSE IF pt.tree # NoWd
         THEN NodeInsert(pt, StripPrefix(pt.prefix, path), value)
         ELSE Ok([pt EXCEPT !.nodes = Put(@, value, NewNode(path, NoWd)),
                            !.tree = value,
                            !.table = @ \cup {value}])

\* Node::pop: [err, nodes, node]
NodePop(nodes, root, path) ==
    IF path = <<>> THEN [err |-> "InvalidPath", nodes |-> nodes, node |-> NoWd]
    ELSE LET parent == NodeGet(nodes, root, PathParent(path))
             name == FileName(path)
         IN IF parent = NoWd \/ name \notin DOMAIN nodes[parent].children
            THEN [err |-> "PathNotFound", nodes |-> nodes, node |-> NoWd]
            ELSE [err |-> "",
                  nodes |-> [nodes EXCEPT ![parent].children = Drop(@, name)],
                  node |-> nodes[parent].children[name]]

\* Head::delete, for one of the orders Node::values may list the subtree in.
HeadDeleteAll(pt, value) ==
    IF ~Has(pt, value) THEN {Err("ValueNotFound", pt)}
    ELSE LET path == NodePath(pt.nodes, value)
         IN IF ~IsPrefix(pt.prefix, path) THEN {Err("PrefixMismatched", pt)}
            ELSE IF StripPrefix(pt.prefix, path) = <<>>
            THEN IF pt.tree = NoWd THEN {Err("unwrap", pt)}
                 ELSE {[err |-> "", vals |-> v,
                        pt |-> Collect([pt EXCEPT !.tree = NoWd,
                                          !.table = @ \ Range(v)])]
                       : v \in NodeValues(pt.nodes, pt.tree)}
            ELSE IF pt.tree = NoWd THEN {Err("EmptyTree", pt)}
            ELSE LET p == NodePop(pt.nodes, pt.tree,
                                  StripPrefix(pt.prefix, path))
                 IN IF p.err # "" THEN {Err(p.err, pt)}
                    ELSE {[err |-> "", vals |-> v,
                           pt |-> Collect([pt EXCEPT !.nodes = p.nodes,
                                             !.table = @ \ Range(v)])]
                          : v \in NodeValues(pt.nodes, p.node)}

\* A rename that puts the node under its new name and leaves the entry of
\* the old name in the children of the old parent.
NodeRenameStale(pt, old_path, new_path) ==
    LET p == NodePop(pt.nodes, pt.tree, old_path)
    IN IF p.err # "" THEN Err(p.err, pt)
       ELSE LET parent == NodeGet(pt.nodes, pt.tree, PathParent(new_path))
                new_name == FileName(new_path)
            IN IF parent = NoWd THEN Err("PathNotFound", pt)
               ELSE Ok([pt EXCEPT !.nodes =
                         [@ EXCEPT ![p.node].key = <<new_name>>,
                                   ![p.node].parent = parent,
                                   ![parent].children =
                                       Put(@, new_name, p.node)]])

\* Node::rename: pop the node, then look the new parent up.
NodeRename(pt, old_path, new_path) ==
    LET p == NodePop(pt.nodes, pt.tree, old_path)
    IN IF p.err # "" THEN Err(p.err, pt)
       ELSE LET popped == [pt EXCEPT !.nodes = p.nodes]
            IN IF new_path = <<>> THEN Err("InvalidPath", popped)
               ELSE LET parent == NodeGet(p.nodes, pt.tree,
                                          PathParent(new_path))
                        new_name == FileName(new_path)
                    IN IF parent = NoWd THEN Err("PathNotFound", popped)
                       ELSE Ok([popped EXCEPT !.nodes =
                                 [@ EXCEPT ![p.node].key = <<new_name>>,
                                           ![p.node].parent = parent,
                                           ![parent].children =
                                               Put(@, new_name, p.node)]])

\* A rename that takes an id the table does not hold for done.
HeadRenameLax(pt, value, new_path) ==
    IF ~Has(pt, value) THEN Ok(pt)
    ELSE LET old_path == NodePath(pt.nodes, value)
         IN IF ~IsPrefix(pt.prefix, old_path) THEN Err("PrefixMismatched", pt)
            ELSE IF ~IsPrefix(pt.prefix, new_path)
            THEN Err("PrefixMismatched", pt)
            ELSE IF pt.tree = NoWd THEN Err("EmptyTree", pt)
            ELSE NodeRename(pt, StripPrefix(pt.prefix, old_path),
                            StripPrefix(pt.prefix, new_path))

HeadRename(pt, value, new_path) ==
    IF ~Has(pt, value) THEN Err("ValueNotFound", pt)
    ELSE LET old_path == NodePath(pt.nodes, value)
         IN IF ~IsPrefix(pt.prefix, old_path) THEN Err("PrefixMismatched", pt)
            ELSE IF ~IsPrefix(pt.prefix, new_path)
            THEN Err("PrefixMismatched", pt)
            ELSE IF pt.tree = NoWd THEN Err("EmptyTree", pt)
            ELSE NodeRename(pt, StripPrefix(pt.prefix, old_path),
                            StripPrefix(pt.prefix, new_path))

\* Head::path indexes the table: it panics on a value that is not there.
HeadPath(pt, value) == NodePath(pt.nodes, value)

(***************************************************************************)
(* The file system and the kernel's side of inotify (spec section 6).      *)
(***************************************************************************)
NameS == <<"S">>
Free == [par |-> NoIno, name |-> NoName, dir |-> FALSE]
Entry(p, n, d) == [par |-> p, name |-> n, dir |-> d]

Exists(f, i) == i \in Inodes /\ f[i].par # NoIno
Children(f, p) == {i \in Inodes : f[i].par = p}
Lookup(f, p, n) ==
    IF \E i \in Inodes : f[i].par = p /\ f[i].name = n
    THEN CHOOSE i \in Inodes : f[i].par = p /\ f[i].name = n
    ELSE NoIno

RECURSIVE Resolve(_, _, _)
Resolve(f, cur, path) ==
    IF path = <<>> THEN cur
    ELSE LET c == Lookup(f, cur, Head(path))
         IN IF c = NoIno THEN NoIno ELSE Resolve(f, c, Tail(path))

\* symlink_metadata(path): "none" | "dir" | "file"
Metadata(f, path) ==
    LET i == Resolve(f, Outside, path)
    IN IF i = NoIno \/ i = Outside THEN "none"
       ELSE IF f[i].dir THEN "dir" ELSE "file"

RECURSIVE Under(_, _, _)
Under(f, a, i) ==
    IF i = a THEN TRUE
    ELSE IF i \in Inodes /\ f[i].par \in Inodes THEN Under(f, a, f[i].par)
    ELSE FALSE

WdOf(k, i) ==
    IF \E w \in DOMAIN k : k[w] = i
    THEN CHOOSE w \in DOMAIN k : k[w] = i
    ELSE NoWd

Rec(wd, kind, name, ck, d) ==
    [wd |-> wd, kind |-> kind, name |-> name, cookie |-> ck, dir |-> d]
NoRec == Rec(NoWd, "None", NoName, 0, FALSE)

\* The records of one system call reach the queue one after the other: the
\* first with the call, the others in later kernel steps.
Queued(recs) ==
    IF recs = <<>> THEN queue' = queue /\ kpend' = kpend
    ELSE queue' = Append(queue, Head(recs)) /\ kpend' = Tail(recs)

EnvReady == pc \in {"idle", "walk"} /\ kpend = <<>> /\ ops < MaxOps

IfWatched(k, i, rec) == IF i \in Inodes /\ WdOf(k, i) # NoWd THEN <<rec>> ELSE <<>>

\* mkdir(2) / creat(2) of name n in directory p
EnvCreate(p, n, d) ==
    /\ EnvReady
    /\ Exists(fs, p) /\ fs[p].dir
    /\ Lookup(fs, p, n) = NoIno
    /\ \E i \in Inodes : ~Exists(fs, i)
    /\ LET i == CHOOSE j \in Inodes :
                    ~Exists(fs, j) /\ \A l \in Inodes : ~Exists(fs, l) => j <= l
       IN fs' = [fs EXCEPT ![i] = Entry(p, n, d)]
    /\ Queued(IfWatched(kw, p, Rec(WdOf(kw, p), "Create", n, 0, d)))
    /\ ops' = ops + 1
    /\ UNCHANGED <<printer, kw, nextWd, cookie, pc, opts, top_wd, top_dir, path_tree,
                   cached, walk, out, last>>

\* The end of inode i: its watch goes, the kernel says so.
Gone(k, i) ==
    IF WdOf(k, i) = NoWd THEN <<>>
    ELSE <<Rec(WdOf(k, i), "DeleteSelf", NoName, 0, FALSE),
           Rec(WdOf(k, i), "Ignored", NoName, 0, FALSE)>>
Unwatch(k, i) == [w \in {x \in DOMAIN k : k[x] # i} |-> k[w]]

\* rmdir(2) / unlink(2) of entry i
EnvRemove(i) ==
    /\ EnvReady
    /\ Exists(fs, i)
    /\ Children(fs, i) = {}
    /\ fs' = [fs EXCEPT ![i] = Free]
    /\ kw' = Unwatch(kw, i)
    /\ Queued(IfWatched(kw, fs[i].par,
                        Rec(WdOf(kw, fs[i].par), "Delete", fs[i].name, 0,
                            fs[i].dir))
              \o Gone(kw, i))
    /\ ops' = ops + 1
    /\ UNCHANGED <<printer, nextWd, cookie, pc, opts, top_wd, top_dir, path_tree,
                   cached, walk, out, last>>

\* rename(2) of entry i to name m in directory q, replacing the empty
\* directory or the file t that holds that name.
EnvRename(i, q, m) ==
    /\ EnvReady
    /\ Exists(fs, i)
    /\ q = Outside \/ (Exists(fs, q) /\ fs[q].dir)
    /\ ~Under(fs, i, q)
    /\ <<q, m>> # <<fs[i].par, fs[i].name>>
    /\ IF i = RootIno THEN q = Outside /\ m = NameS
       ELSE IF q = Outside THEN m = fs[i].name
       ELSE m \in Names
    /\ LET t == Lookup(fs, q, m)
           c == 3 - cookie
           from == IfWatched(kw, fs[i].par,
                       Rec(WdOf(kw, fs[i].par), "MoveFrom", fs[i].name, c,
                           fs[i].dir))
           to == IfWatched(kw, q, Rec(WdOf(kw, q), "MoveTo", m, c, fs[i].dir))
           self == IfWatched(kw, i,
                       Rec(WdOf(kw, i), "MoveSelf", NoName, 0, FALSE))
       IN /\ t # NoIno => fs[t].dir = fs[i].dir /\ Children(fs, t) = {}
          /\ fs' = [j \in Inodes |->
                      IF j = i THEN Entry(q, m, fs[i].dir)
                      ELSE IF j = t THEN Free ELSE fs[j]]
          /\ kw' = IF t = NoIno THEN kw ELSE Unwatch(kw, t)
          /\ cookie' = IF from \o to = <<>> THEN cookie ELSE c
          /\ Queued(from \o to \o self
                    \o (IF t = NoIno THEN <<>> ELSE Gone(kw, t)))
    /\ ops' = ops + 1
    /\ UNCHANGED <<printer, nextWd, pc, opts, top_wd, top_dir, path_tree, cached,
                   walk, out, last>>

\* The orders a finite set can be listed in.
Orders(S) ==
    {s \in [1 .. Cardinality(S) -> S] : {s[j] : j \in 1 .. Cardinality(S)} = S}

\* IN_UNMOUNT then IN_IGNORED for each watch of the list.
RECURSIVE UnmountRecs(_)
UnmountRecs(wds) ==
    IF wds = <<>> THEN <<>>
    ELSE <<Rec(Head(wds), "Unmount", NoName, 0, FALSE),
           Rec(Head(wds), "Ignored", NoName, 0, FALSE)>>
         \o UnmountRecs(Tail(wds))

\* umount(2) of the file system whose root is the watched directory i:
\* its inodes lose their watches, in any order, and what is left at the
\* path of i is the empty, unwatched mount point.
EnvUnmount(i) ==
    /\ EnvReady
    /\ Exists(fs, i) /\ fs[i].dir
    /\ WdOf(kw, i) # NoWd
    /\ LET gone == {j \in Inodes : Under(fs, i, j)}
           wds == {w \in DOMAIN kw : kw[w] \in gone}
       IN /\ fs' = [j \in Inodes |->
                      IF j \in gone \ {i} THEN Free ELSE fs[j]]
          /\ kw' = [w \in DOMAIN kw \ wds |-> kw[w]]
          /\ \E order \in Orders(wds) : Queued(UnmountRecs(order))
    /\ ops' = ops + 1
    /\ UNCHANGED <<printer, nextWd, cookie, pc, opts, top_wd, top_dir, path_tree,
                   cached, walk, out, last>>

\* The kinds of ExtraEvent the recognizer tells a name-less record from a
\* named one for.
ExtraKinds == {"Access", "Attrib", "Open", "Close"}

\* read(2) / chmod(2) / open(2) / close(2) on entry i while the observer
\* asks for the extra events: a named record on the watch of the parent,
\* then a name-less record on the entry's own watch.
EnvTouch(i, kind) ==
    /\ EnvReady
    /\ Exists(fs, i)
    /\ Queued(IfWatched(kw, fs[i].par,
                        Rec(WdOf(kw, fs[i].par), kind, fs[i].name, 0,
                            fs[i].dir))
              \o IfWatched(kw, i, Rec(WdOf(kw, i), kind, NoName, 0, TRUE)))
    /\ ops' = ops + 1
    /\ UNCHANGED <<printer, fs, kw, nextWd, cookie, pc, opts, top_wd, top_dir,
                   path_tree, cached, walk, out, last>>

\* The kernel's queue is full: the records the running system call has
\* still to queue are lost and IN_Q_OVERFLOW (wd = -1) is queued for them.
Overflow == Rec(-1, "Overflow", NoName, 0, FALSE)
EnvOverflow ==
    /\ pc \in {"idle", "walk"}
    /\ kpend # <<>>
    /\ queue' = Append(queue, Overflow)
    /\ kpend' = <<>>
    /\ UNCHANGED <<printer, fs, kw, nextWd, cookie, ops, pc, opts, top_wd, top_dir,
                   path_tree, cached, walk, out, last>>

\* The kernel queues the next record of the running system call.
KernelQueue ==
    /\ kpend # <<>>
    /\ queue' = Append(queue, Head(kpend))
    /\ kpend' = Tail(kpend)
    /\ UNCHANGED <<printer, fs, kw, nextWd, cookie, ops, pc, opts, top_wd, top_dir,
                   path_tree, cached, walk, out, last>>

\* inotify_add_watch(fd, path, mask | IN_ONLYDIR): [wd, kw, nextWd];
\* wd = -1 on failure.  A directory that has a watch keeps its watch id.
KAddWatch(f, k, nw, path) ==
    LET i == Resolve(f, Outside, path)
    IN IF i = NoIno \/ i = Outside \/ ~f[i].dir
       THEN [wd |-> -1, kw |-> k, nextWd |-> nw]
       ELSE IF WdOf(k, i) # NoWd
       THEN [wd |-> WdOf(k, i), kw |-> k, nextWd |-> nw]
       ELSE [wd |-> nw, kw |-> Put(k, nw, i), nextWd |-> nw + 1]

\* inotify_rm_watch(fd, wd): [kw, recs]
KRmWatch(k, wd) ==
    IF wd \in DOMAIN k
    THEN [kw |-> Drop(k, wd),
          recs |-> <<Rec(wd, "Ignored", NoName, 0, FALSE)>>]
    ELSE [kw |-> k, recs |-> <<>>]

(***************************************************************************)
(* The decoder (inotify::EventSeq): the records not yet handed to the      *)
(* recognizer are its unread buffer followed by the kernel's queue.        *)
(***************************************************************************)
HasNextEvent(q) == q # <<>>

(***************************************************************************)
(* The watch installer: src/lib.rs.                                        *)
(***************************************************************************)
FT(d) == IF d THEN "Dir" ELSE "File"

\* A guard that admits every directory, dot-directories too.
GuardAny(o, path, ft) == ft = "Dir"

\* guard(opts, path, file_type)
Guard(o, path, ft) ==
    IF ft # "Dir" THEN FALSE
    ELSE IF FileName(path)[1] = "." THEN o = "Include"
    ELSE TRUE

\* An installer that asks the guard about every path, the root too.
AddWatchGuarded(f, pt, k, nw, path) ==
    LET a == KAddWatch(f, k, nw, path)
    IN IF a.wd < 0 \/ ~Guard(opts, path, "Dir")
       THEN [res |-> "AddWatch", wd |-> NoWd, pt |-> pt, kw |-> k,
             nextWd |-> nw]
       ELSE IF Has(pt, a.wd)
       THEN [res |-> "WatchSame", wd |-> NoWd, pt |-> pt, kw |-> a.kw,
             nextWd |-> a.nextWd]
       ELSE LET ins == HeadInsert(pt, path, a.wd)
            IN [res |-> IF ins.err = "" THEN "ok" ELSE "panic",
                wd |-> IF ins.err = "" THEN a.wd ELSE NoWd,
                pt |-> ins.pt, kw |-> a.kw, nextWd |-> a.nextWd]

\* Watcher::add_watch: [res, wd, pt, kw, nextWd];
\* res is "ok", "AddWatch", "WatchSame" or "panic" (the unwrap of insert).
AddWatch(f, pt, k, nw, path) ==
    LET a == KAddWatch(f, k, nw, path)
    IN IF a.wd < 0
       THEN [res |-> "AddWatch", wd |-> NoWd, pt |-> pt, kw |-> k,
             nextWd |-> nw]
       ELSE IF Has(pt, a.wd)
       THEN [res |-> "WatchSame", wd |-> NoWd, pt |-> pt, kw |-> a.kw,
             nextWd |-> a.nextWd]
       ELSE LET ins == HeadInsert(pt, path, a.wd)
            IN [res |-> IF ins.err = "" THEN "ok" ELSE "panic",
                wd |-> IF ins.err = "" THEN a.wd ELSE NoWd,
                pt |-> ins.pt, kw |-> a.kw, nextWd |-> a.nextWd]

\* The entries WalkDir::new(path).min_depth(1).filter_entry(guard) yields,
\* in each order the directory listings may come in.
RECURSIVE WalkEntries(_, _, _, _), WalkForest(_, _, _, _)
WalkEntries(o, f, i, path) ==
    WalkForest(o, f,
               {c \in Children(f, i) :
                    Guard(o, Append(path, f[c].name), FT(f[c].dir))},
               path)
WalkForest(o, f, S, path) ==
    IF S = {} THEN {<<>>}
    ELSE UNION {{<<Append(path, f[c].name)>> \o a \o b :
                    a \in WalkEntries(o, f, c, Append(path, f[c].name)),
                    b \in WalkForest(o, f, S \ {c}, path)} : c \in S}

\* A walk that lists the directory and does not descend.
WalkDirFlat(o, f, path) ==
    LET i == Resolve(f, Outside, path)
    IN IF i = NoIno \/ i = Outside \/ ~f[i].dir THEN {<<>>}
       ELSE LET P == {Append(path, f[c].name) :
                         c \in {d \in Children(f, i) :
                                   Guard(o, Append(path, f[d].name),
                                         FT(f[d].dir))}}
            IN {s \in [1 .. Cardinality(P) -> P] :
                   {s[j] : j \in 1 .. Cardinality(P)} = P}

WalkDir(o, f, path) ==
    LET i == Resolve(f, Outside, path)
    IN IF i = NoIno \/ i = Outside \/ ~f[i].dir THEN {<<>>}
       ELSE WalkEntries(o, f, i, path)

\* `for entry in walk { add_watch(entry.path()) }`: [panic, pt, kw, nextWd]
RECURSIVE AddEach(_, _, _, _, _)
AddEach(f, pt, k, nw, paths) ==
    IF paths = <<>>
    THEN [panic |-> FALSE, pt |-> pt, kw |-> k, nextWd |-> nw]
    ELSE LET a == AddWatch(f, pt, k, nw, Head(paths))
         IN IF a.res = "panic"
            THEN [panic |-> TRUE, pt |-> a.pt, kw |-> a.kw,
                  nextWd |-> a.nextWd]
            ELSE AddEach(f, a.pt, a.kw, a.nextWd, Tail(paths))

RECURSIVE RmEach(_, _)
RmEach(k, vals) ==
    IF vals = <<>> THEN [kw |-> k, recs |-> <<>>]
    ELSE LET a == KRmWatch(k, Head(vals))
             b == RmEach(a.kw, Tail(vals))
         IN [kw |-> b.kw, recs |-> a.recs \o b.recs]

\* Watcher::rm_watch_all: the outcomes [panic, pt, kw, recs, vals]
RmWatchAll(pt, k, wd) ==
    {IF d.err # ""
     THEN [panic |-> TRUE, pt |-> pt, kw |-> k, recs |-> <<>>, vals |-> <<>>]
     ELSE [panic |-> FALSE, pt |-> d.pt, kw |-> RmEach(k, d.vals).kw,
           recs |-> RmEach(k, d.vals).recs, vals |-> d.vals]
     : d \in HeadDeleteAll(pt, wd)}

\* Watcher::update_path: [panic, pt]
UpdatePath(pt, wd, path) ==
    LET r == HeadRename(pt, wd, path)
    IN [panic |-> r.err # "", pt |-> r.pt]

(***************************************************************************)
(* The recognizer: Watcher::recognize.                                     *)
(***************************************************************************)
NoPath == <<>>
Ev(kind, path, to, ft) == [kind |-> kind, path |-> path, to |-> to, ft |-> ft]
NoEv == Ev("None", NoPath, NoPath, "-")

\* A recognize that reads the cache without emptying it: the record it
\* found there stays unless another is stored.
RecdKeep(ev, wd, q, c, n1, n2) ==
    [panic |-> FALSE, ev |-> ev, wd |-> wd, queue |-> q,
     cached |-> IF c = NoRec THEN cached ELSE c, n1 |-> n1, n2 |-> n2]

\* [panic, ev, wd, queue, cached, n1, n2]: the event and the watch id
\* recognize returns, what is left to read, the record put into the cache,
\* and the records next_inotify_event returned.
Recd(ev, wd, q, c, n1, n2) ==
    [panic |-> FALSE, ev |-> ev, wd |-> wd, queue |-> q, cached |-> c,
     n1 |-> n1, n2 |-> n2]
Panicked(q, n1, n2) ==
    [panic |-> TRUE, ev |-> NoEv, wd |-> NoWd, queue |-> q, cached |-> NoRec,
     n1 |-> n1, n2 |-> n2]

\* A full path that follows the root to the name it has now.
FullPathLive(pt, wd, name) ==
    Append(<<fs[RootIno].name>> \o Tail(HeadPath(pt, wd)), name)

FullPath(pt, wd, name) == Append(HeadPath(pt, wd), name)

RecognizeMoveFrom(pt, tw, e, q) ==
    LET from == FullPath(pt, e.wd, e.name)
    IN IF ~HasNextEvent(q)
       THEN Recd(Ev("MoveAway", from, NoPath, FT(e.dir)), NoWd, q, NoRec,
                 NoRec, NoRec)
       ELSE LET n == Head(q)
                q1 == Tail(q)
            IN IF n.kind = "MoveSelf"
               THEN IF n.wd # tw
                    THEN Recd(Ev("MoveAway", from, NoPath, "Dir"), n.wd, q1,
                              NoRec, n, NoRec)
                    ELSE Recd(Ev("MoveAway", from, NoPath, FT(e.dir)), NoWd,
                              q1, n, n, NoRec)
               ELSE IF n.kind = "MoveTo"
               THEN IF e.cookie # n.cookie
                    THEN Recd(Ev("MoveAway", from, NoPath, FT(n.dir)), NoWd,
                              q1, n, n, NoRec)
                    ELSE IF ~Has(pt, n.wd) THEN Panicked(q1, n, NoRec)
                    ELSE LET to == FullPath(pt, n.wd, n.name)
                         IN IF ~HasNextEvent(q1)
                            THEN Recd(Ev("Move", from, to, FT(n.dir)), NoWd,
                                      q1, NoRec, n, NoRec)
                            ELSE IF Head(q1).kind = "MoveSelf"
                            THEN Recd(Ev("Move", from, to, "Dir"),
                                      Head(q1).wd, Tail(q1), NoRec, n,
                                      Head(q1))
                            ELSE Recd(Ev("Move", from, to, FT(n.dir)), NoWd,
                                      Tail(q1), Head(q1), n, Head(q1))
               ELSE Recd(Ev("MoveAway", from, NoPath, FT(e.dir)), NoWd, q1,
                         n, n, NoRec)

\* A Delete arm that drops the DELETE_SELF of the root it has read.
RecognizeDeleteDrop(pt, tw, e, q) ==
    LET path == FullPath(pt, e.wd, e.name)
    IN IF ~HasNextEvent(q)
       THEN Recd(Ev("Delete", path, NoPath, FT(e.dir)), NoWd, q, NoRec,
                 NoRec, NoRec)
       ELSE LET n == Head(q)
                q1 == Tail(q)
            IN IF n.kind = "DeleteSelf"
               THEN IF n.wd = tw
                    THEN Recd(Ev("Delete", path, NoPath, FT(e.dir)), NoWd,
                              q1, NoRec, n, NoRec)
                    ELSE Recd(Ev("Delete", path, NoPath, "Dir"), n.wd, q1,
                              NoRec, n, NoRec)
               ELSE Recd(Ev("Delete", path, NoPath, FT(e.dir)), NoWd, q1, n,
                         n, NoRec)

RecognizeDelete(pt, tw, e, q) ==
    LET path == FullPath(pt, e.wd, e.name)
    IN IF ~HasNextEvent(q)
       THEN Recd(Ev("Delete", path, NoPath, FT(e.dir)), NoWd, q, NoRec,
                 NoRec, NoRec)
       ELSE LET n == Head(q)
                q1 == Tail(q)
            IN IF n.kind = "DeleteSelf"
               THEN IF n.wd = tw
                    THEN Recd(Ev("Delete", path, NoPath, FT(e.dir)), NoWd,
                              q1, n, n, NoRec)
                    ELSE Recd(Ev("Delete", path, NoPath, "Dir"), n.wd, q1,
                              NoRec, n, NoRec)
               ELSE Recd(Ev("Delete", path, NoPath, FT(e.dir)), NoWd, q1, n,
                         n, NoRec)

\* AccessTop, AttribTop, OpenTop, CloseTop
TopOf(kind) ==
    CASE kind = "Access" -> "AccessTop"
      [] kind = "Attrib" -> "AttribTop"
      [] kind = "Open" -> "OpenTop"
      [] kind = "Close" -> "CloseTop"

\* recognize(e) with q the records still to read.  inotify::EventKind has
\* no variant for IN_Q_OVERFLOW: such a record is of kind Unknown.
Recognize(pt, tw, td, e, q) ==
    IF \/ e.kind \in {"Create", "MoveFrom", "MoveTo", "Delete"} /\ ~Has(pt, e.wd)
       \/ e.kind = "Unmount" /\ e.wd # tw /\ ~Has(pt, e.wd)
       \/ e.kind \in ExtraKinds /\ e.name # NoName /\ ~Has(pt, e.wd)
    THEN Panicked(q, NoRec, NoRec)
    ELSE IF e.kind = "Create"
    THEN Recd(Ev("Create", FullPath(pt, e.wd, e.name), NoPath, FT(e.dir)),
              NoWd, q, NoRec, NoRec, NoRec)
    ELSE IF e.kind = "MoveFrom" THEN RecognizeMoveFrom(pt, tw, e, q)
    ELSE IF e.kind = "MoveTo"
    THEN Recd(Ev("MoveInto", FullPath(pt, e.wd, e.name), NoPath, FT(e.dir)),
              NoWd, q, NoRec, NoRec, NoRec)
    ELSE IF e.kind = "Delete" THEN RecognizeDelete(pt, tw, e, q)
    ELSE IF e.kind = "MoveSelf"
    THEN Recd(Ev("MoveTop", td, NoPath, "-"), NoWd, q, NoRec, NoRec, NoRec)
    ELSE IF e.kind = "DeleteSelf"
    THEN Recd(Ev("DeleteTop", td, NoPath, "-"), NoWd, q, NoRec, NoRec, NoRec)
    ELSE IF e.kind \in ExtraKinds
    THEN IF e.name # NoName
         THEN Recd(Ev(e.kind, FullPath(pt, e.wd, e.name), NoPath, FT(e.dir)),
                   NoWd, q, NoRec, NoRec, NoRec)
         ELSE IF e.wd = tw
         THEN Recd(Ev(TopOf(e.kind), td, NoPath, "-"), NoWd, q, NoRec, NoRec,
                   NoRec)
         ELSE Recd(Ev("Noise", NoPath, NoPath, "-"), NoWd, q, NoRec, NoRec,
                   NoRec)
    ELSE IF e.kind = "Unmount"
    THEN IF e.wd = tw
         THEN Recd(Ev("UnmountTop", td, NoPath, "-"), NoWd, q, NoRec, NoRec,
                   NoRec)
         ELSE Recd(Ev("Unmount", HeadPath(pt, e.wd), NoPath, "Dir"), NoWd, q,
                   NoRec, NoRec, NoRec)
    ELSE IF e.kind = "Ignored"
    THEN Recd(Ev("Ignored", NoPath, NoPath, "-"), NoWd, q, NoRec, NoRec,
              NoRec)
    ELSE Recd(Ev("Unknown", NoPath, NoPath, "-"), NoWd, q, NoRec, NoRec,
              NoRec)

(***************************************************************************)
(* The observer: Watcher::new and the arms of Watcher::stream.             *)
(***************************************************************************)
NoWalk == [path |-> NoPath, ev |-> NoEv, creates |-> FALSE]
NoPrinter == [timeout_modify |-> 0, counter |-> {}, tasks |-> <<>>,
              stdout |-> <<>>, hist |-> <<>>]
NoLast == [tick |-> 0, head |-> NoRec, hit |-> FALSE, n1 |-> NoRec,
           n2 |-> NoRec, ev |-> NoEv, wd |-> NoWd, act |-> "",
           pt |-> HeadNew(NoPath)]

Tree(e2, e3) ==
    [i \in Inodes |-> IF i = RootIno THEN Entry(Outside, NameR, TRUE)
                      ELSE IF i = 2 THEN e2
                      ELSE IF i = 3 THEN e3
                      ELSE Free]
\* The last tree has a regular file at the path given as the root.
InitTrees ==
    {Tree(Free, Free),
     Tree(Entry(RootIno, NameA, TRUE), Free),
     Tree(Entry(RootIno, NameA, TRUE), Entry(2, NameB, TRUE)),
     Tree(Entry(RootIno, NameA, TRUE), Entry(RootIno, NameB, TRUE)),
     Tree(Entry(RootIno, NameA, TRUE), Entry(Outside, NameB, TRUE)),
     Tree(Entry(RootIno, NameH, TRUE), Entry(2, NameA, TRUE)),
     Tree(Entry(RootIno, NameH, TRUE), Free),
     Tree(Entry(RootIno, NameA, FALSE), Free),
     Tree(Entry(RootIno, NameA, FALSE), Entry(Outside, NameB, TRUE)),
     [Tree(Free, Free) EXCEPT ![RootIno].dir = FALSE]}

\* The root is named R or .R; the dot-named root is observed with
\* dot-directories excluded.
Init ==
    /\ \E t \in InitTrees, r \in RootNames :
          /\ fs = [t EXCEPT ![RootIno].name = r]
          /\ top_dir = <<r>>
          /\ path_tree = HeadNew(<<r>>)
    /\ opts \in {"Exclude", "Include"}
    /\ top_dir = <<NameDR>> => opts = "Exclude"
    /\ kw = EmptyMap
    /\ nextWd = 1
    /\ cookie = 1
    /\ queue = <<>>
    /\ kpend = <<>>
    /\ ops = 0
    /\ pc = "new"
    /\ top_wd = NoWd
    /\ cached = NoRec
    /\ walk = NoWalk
    /\ out = <<>>
    /\ last = NoLast
    /\ printer = NoPrinter

\* Watcher::new
New ==
    /\ pc = "new"
    /\ LET a == AddWatch(fs, path_tree, kw, nextWd, top_dir)
       IN IF a.res = "ok"
          THEN \E entries \in WalkDir(opts, fs, top_dir) :
                 LET b == AddEach(fs, a.pt, a.kw, a.nextWd, entries)
                 IN /\ top_wd' = a.wd
                    /\ path_tree' = b.pt
                    /\ kw' = b.kw
                    /\ nextWd' = b.nextWd
                    /\ pc' = IF b.panic THEN "panic" ELSE "idle"
          ELSE /\ top_wd' = top_wd
               /\ path_tree' = a.pt
               /\ kw' = a.kw
               /\ nextWd' = a.nextWd
               /\ pc' = IF a.res = "panic" THEN "panic" ELSE "idle"
    /\ UNCHANGED <<printer, fs, cookie, queue, kpend, ops, opts, top_dir, cached,
                   walk, out, last>>

\* A loop that reads the decoder first and looks into the cache only when
\* the decoder has nothing.
TakenRecFresh == IF HasNextEvent(queue) THEN Head(queue) ELSE cached

\* A take from the cache that also drops the record the decoder has ready.
RestQueueSkip == IF queue = <<>> THEN queue ELSE Tail(queue)

\* The record the stream loop takes, and what the decoder still holds.
CanStep == pc = "idle" /\ (cached # NoRec \/ HasNextEvent(queue))
TakenRec == IF cached # NoRec THEN cached ELSE Head(queue)
RestQueue == IF cached # NoRec THEN queue ELSE Tail(queue)
Recognized == Recognize(path_tree, top_wd, top_dir, TakenRec, RestQueue)

\* What the step did: the record it took and whether the cache held it, the
\* records it read after it; for a rename, the registry it found.
Stepped(r, act) ==
    [tick |-> 1 - last.tick, head |-> TakenRec, hit |-> cached # NoRec,
     n1 |-> r.n1, n2 |-> r.n2, ev |-> r.ev, wd |-> r.wd, act |-> act,
     pt |-> IF act = "rename" THEN path_tree ELSE HeadNew(NoPath)]

\* One arm ran to its yield.
Yield(r, pt, k, nw, recs, act) ==
    /\ path_tree' = pt
    /\ kw' = k
    /\ nextWd' = nw
    /\ queue' = r.queue \o recs
    /\ cached' = r.cached
    /\ pc' = "idle"
    /\ walk' = NoWalk
    /\ out' = <<r.ev>>
    /\ last' = Stepped(r, act)
    /\ UNCHANGED <<printer, fs, cookie, kpend, ops, opts, top_wd, top_dir>>

\* An unwrap failed: the thread panics, nothing is yielded.
Panic(r, pt, k, nw) ==
    /\ path_tree' = pt
    /\ kw' = k
    /\ nextWd' = nw
    /\ queue' = r.queue
    /\ cached' = r.cached
    /\ pc' = "panic"
    /\ walk' = NoWalk
    /\ out' = <<>>
    /\ last' = Stepped(r, "panic")
    /\ UNCHANGED <<printer, fs, cookie, kpend, ops, opts, top_wd, top_dir>>

\* add_watch_all(path) was called; the walk it returned is still to run.
StartWalk(r, path, creates) ==
    LET a == AddWatch(fs, path_tree, kw, nextWd, path)
    IN IF a.res = "panic" THEN Panic(r, a.pt, a.kw, a.nextWd)
       ELSE /\ path_tree' = a.pt
            /\ kw' = a.kw
            /\ nextWd' = a.nextWd
            /\ queue' = r.queue
            /\ cached' = r.cached
            /\ pc' = "walk"
            /\ walk' = [path |-> path, ev |-> r.ev, creates |-> creates]
            /\ out' = <<>>
            /\ last' = Stepped(r, "add")
            /\ UNCHANGED <<printer, fs, cookie, kpend, ops, opts, top_wd, top_dir>>

RmAndYield(r, wd) ==
    IF wd = NoWd THEN Panic(r, path_tree, kw, nextWd)
    ELSE \E d \in RmWatchAll(path_tree, kw, wd) :
            IF d.panic THEN Panic(r, d.pt, d.kw, nextWd)
            ELSE Yield(r, d.pt, d.kw, nextWd, d.recs, "rm")

\* recognize panicked on a watch id the registry does not hold
StepPanic ==
    /\ CanStep
    /\ Recognized.panic
    /\ Panic(Recognized, path_tree, kw, nextWd)

\* Event::Move(from, to, Dir)
StepMoveDir ==
    /\ CanStep
    /\ LET r == Recognized
       IN /\ ~r.panic /\ r.ev.kind = "Move" /\ r.ev.ft = "Dir"
          /\ IF Guard(opts, r.ev.path, "Dir")
             THEN IF Guard(opts, r.ev.to, "Dir")
                  THEN IF r.wd = NoWd THEN Panic(r, path_tree, kw, nextWd)
                       ELSE LET u == UpdatePath(path_tree, r.wd, r.ev.to)
                            IN IF u.panic THEN Panic(r, u.pt, kw, nextWd)
                               ELSE Yield(r, u.pt, kw, nextWd, <<>>, "rename")
                  ELSE RmAndYield(r, r.wd)
             ELSE IF Guard(opts, r.ev.to, "Dir")
                  THEN StartWalk(r, r.ev.to, FALSE)
                  ELSE Yield(r, path_tree, kw, nextWd, <<>>, "none")

\* Event::MoveAway(_, Dir) | Event::Delete(_, Dir)
StepRemoveDir ==
    /\ CanStep
    /\ LET r == Recognized
       IN /\ ~r.panic /\ r.ev.kind \in {"MoveAway", "Delete"}
          /\ r.ev.ft = "Dir"
          /\ IF r.wd # NoWd THEN RmAndYield(r, r.wd)
             ELSE Yield(r, path_tree, kw, nextWd, <<>>, "none")

\* Event::MoveInto(path, Dir) and Event::Create(path, Dir)
StepNewDir ==
    /\ CanStep
    /\ LET r == Recognized
       IN /\ ~r.panic /\ r.ev.kind \in {"MoveInto", "Create"}
          /\ r.ev.ft = "Dir"
          /\ IF /\ Metadata(fs, r.ev.path) # "none"
                /\ Guard(opts, r.ev.path,
                         IF Metadata(fs, r.ev.path) = "dir" THEN "Dir"
                         ELSE "File")
             THEN StartWalk(r, r.ev.path, r.ev.kind = "Create")
             ELSE Yield(r, path_tree, kw, nextWd, <<>>, "none")

\* Event::DeleteTop(_) | Event::UnmountTop(_)
StepTop ==
    /\ CanStep
    /\ LET r == Recognized
       IN /\ ~r.panic /\ r.ev.kind \in {"DeleteTop", "UnmountTop"}
          /\ RmAndYield(r, top_wd)

\* Event::Unmount(..): rm_watch_all(inotify_event.wd)
StepUnmount ==
    /\ CanStep
    /\ LET r == Recognized
       IN /\ ~r.panic /\ r.ev.kind = "Unmount"
          /\ RmAndYield(r, TakenRec.wd)

TopKinds == {TopOf(kind) : kind \in ExtraKinds}

\* A stream whose inner loop hands Noise to the consumer like any event.
StepNoiseYield ==
    /\ CanStep
    /\ LET r == Recognized
       IN /\ ~r.panic /\ r.ev.kind = "Noise"
          /\ Yield(r, path_tree, kw, nextWd, <<>>, "noise")

\* The inner loop of the stream met Event::Noise: it takes the next record.
StepNoise ==
    /\ CanStep
    /\ LET r == Recognized
       IN /\ ~r.panic /\ r.ev.kind = "Noise"
          /\ queue' = r.queue
          /\ cached' = r.cached
          /\ out' = <<>>
          /\ last' = Stepped(r, "noise")
    /\ UNCHANGED <<printer, fs, kw, nextWd, cookie, kpend, ops, pc, opts, top_wd,
                   top_dir, path_tree, walk>>

\* A default arm that uninstalls the tree when the event is MoveTop.
StepOtherRm ==
    /\ CanStep
    /\ LET r == Recognized
       IN /\ ~r.panic
          /\ \/ r.ev.kind \in {"Move", "MoveAway", "Delete", "MoveInto",
                               "Create"} /\ r.ev.ft # "Dir"
             \/ r.ev.kind \in {"MoveTop", "Ignored", "Unknown"} \cup TopKinds
             \/ r.ev.kind \in ExtraKinds
          /\ IF r.ev.kind = "MoveTop" THEN RmAndYield(r, top_wd)
             ELSE Yield(r, path_tree, kw, nextWd, <<>>, "none")

\* every other event is yielded as it is
StepOther ==
    /\ CanStep
    /\ LET r == Recognized
       IN /\ ~r.panic
          /\ \/ r.ev.kind \in {"Move", "MoveAway", "Delete", "MoveInto",
                               "Create"} /\ r.ev.ft # "Dir"
             \/ r.ev.kind \in {"MoveTop", "Ignored", "Unknown"} \cup TopKinds
             \/ r.ev.kind \in ExtraKinds
          /\ Yield(r, path_tree, kw, nextWd, <<>>, "none")

\* The walk of add_watch_all runs: a watch per entry, then the yields.
Walk ==
    /\ pc = "walk"
    /\ \E entries \in WalkDir(opts, fs, walk.path) :
          LET b == AddEach(fs, path_tree, kw, nextWd, entries)
          IN /\ path_tree' = b.pt
             /\ kw' = b.kw
             /\ nextWd' = b.nextWd
             /\ pc' = IF b.panic THEN "panic" ELSE "idle"
             /\ out' = IF b.panic THEN <<>>
                       ELSE IF walk.creates
                       THEN <<walk.ev>> \o
                            [j \in 1 .. Len(entries) |->
                                Ev("Create", entries[j], NoPath, "Dir")]
                       ELSE <<walk.ev>>
             /\ last' = IF b.panic THEN [last EXCEPT !.act = "panic"]
                        ELSE last
    /\ walk' = NoWalk
    /\ UNCHANGED <<printer, fs, cookie, queue, kpend, ops, opts, top_wd, top_dir,
                   cached>>

Next ==
    \/ New
    \/ \E p \in Inodes, n \in Names, d \in BOOLEAN : EnvCreate(p, n, d)
    \/ \E i \in Inodes : EnvRemove(i)
    \/ \E i \in Inodes, q \in Inodes \cup {Outside}, m \in Names \cup {NameS} :
          EnvRename(i, q, m)
    \/ \E i \in Inodes : EnvUnmount(i)
    \/ KernelQueue
    \/ StepPanic
    \/ StepMoveDir
    \/ StepRemoveDir
    \/ StepNewDir
    \/ StepTop
    \/ StepUnmount
    \/ StepOther
    \/ Walk

Spec == Init /\ [][Next]_vars

(***************************************************************************)
(* The observer built with the extra events (WatcherOpts::new with         *)
(* ExtraEvent values) on a kernel whose queue can overflow.                *)
(***************************************************************************)
ExtraTrees ==
    {Tree(Entry(RootIno, NameA, TRUE), Entry(2, NameB, TRUE)),
     Tree(Entry(RootIno, NameH, TRUE), Free),
     Tree(Entry(RootIno, NameA, FALSE), Free)}

InitExtra ==
    /\ Init
    /\ fs \in ExtraTrees

NextExtra ==
    \/ New
    \/ \E p \in Inodes, n \in Names, d \in BOOLEAN : EnvCreate(p, n, d)
    \/ \E i \in Inodes : EnvRemove(i)
    \/ \E i \in Inodes, q \in Inodes \cup {Outside}, m \in Names \cup {NameS} :
          EnvRename(i, q, m)
    \/ \E i \in Inodes : EnvUnmount(i)
    \/ \E i \in Inodes, kind \in ExtraKinds : EnvTouch(i, kind)
    \/ EnvOverflow
    \/ KernelQueue
    \/ StepPanic
    \/ StepMoveDir
    \/ StepRemoveDir
    \/ StepNewDir
    \/ StepTop
    \/ StepUnmount
    \/ StepOther
    \/ StepNoise
    \/ Walk

SpecExtra == InitExtra /\ [][NextExtra]_vars

(***************************************************************************)
(* The registry on its own: any sequence of insert, delete and rename      *)
(* with the values the watcher can pass (a watch id is inserted once).     *)
(***************************************************************************)
MaxVal == 4
RegNames == {NameA, NameB}
RegPaths ==
    {<<NameR>>} \cup {<<NameR, n>> : n \in RegNames}
       \cup {<<NameR, n, m>> : n \in RegNames, m \in RegNames}

\* The paths given to insert: those, and one that is not under the prefix.
InsertPaths == RegPaths \cup {<<NameS, NameA>>}

InitReg ==
    /\ fs = Tree(Free, Free)
    /\ kw = EmptyMap
    /\ nextWd = 1
    /\ cookie = 1
    /\ queue = <<>>
    /\ kpend = <<>>
    /\ ops = 0
    /\ pc = "reg"
    /\ opts = "Include"
    /\ top_wd = NoWd
    /\ top_dir = <<NameR>>
    /\ path_tree = HeadNew(<<NameR>>)
    /\ cached = NoRec
    /\ walk = NoWalk
    /\ out = <<>>
    /\ last = NoLast
    /\ printer = NoPrinter

Called(act, value, path, r) ==
    /\ path_tree' = r.pt
    /\ last' = [NoLast EXCEPT !.tick = 1 - last.tick,
                              !.act = IF r.err = "" THEN act ELSE r.err,
                              !.wd = value,
                              !.ev = Ev("None", NoPath, path, "-")]
    /\ UNCHANGED <<printer, fs, kw, cookie, queue, kpend, ops, pc, opts, top_wd,
                   top_dir, cached, walk, out>>

RegInsert(path) ==
    /\ pc = "reg"
    /\ nextWd <= MaxVal
    /\ nextWd' = nextWd + 1
    /\ Called("insert", nextWd, path, HeadInsert(path_tree, path, nextWd))

RegDelete(value) ==
    /\ pc = "reg"
    /\ \E d \in HeadDeleteAll(path_tree, value) :
          Called("delete", value, NoPath, d)
    /\ UNCHANGED nextWd

RegRename(value, path) ==
    /\ pc = "reg"
    /\ Called("rename", value, path, HeadRename(path_tree, value, path))
    /\ UNCHANGED nextWd

NextReg ==
    \/ \E path \in InsertPaths : RegInsert(path)
    \/ \E value \in 1 .. MaxVal : RegDelete(value)
    \/ \E value \in 1 .. MaxVal, path \in RegPaths : RegRename(value, path)

SpecReg == InitReg /\ [][NextReg]_vars

(***************************************************************************)
(* The printer of the executable: src/bin/watchdir/print.rs.               *)
(* `counter` is the set behind the Arc<Mutex<..>>, `tasks` the paths of    *)
(* the timer tasks that were spawned and have not run to their end, in the *)
(* order of their spawning, `stdout` the lines written (a line is the      *)
(* event it shows).  `hist` is history: the calls of print with what they  *)
(* wrote, and the timer tasks that ran.                                    *)
(***************************************************************************)
MaxPrints == 4
DefaultThrottle == 1000
Timeouts == {0, DefaultThrottle}
PrintPaths == {<<NameR, NameA>>, <<NameR, NameB>>}
PrintEvents ==
    {Ev("Modify", path, NoPath, "File") : path \in PrintPaths}
       \cup {Ev("Create", <<NameR, NameA>>, NoPath, "File"),
             Ev("Noise", NoPath, NoPath, "-")}

\* Printer::new
PrinterNew(timeout) == [NoPrinter EXCEPT !.timeout_modify = timeout]

\* A debounce with one window for all paths.
ShouldAnyPath(pr, path) ==
    IF pr.timeout_modify = 0 THEN [res |-> TRUE, pr |-> pr]
    ELSE IF pr.counter # {} THEN [res |-> FALSE, pr |-> pr]
    ELSE [res |-> TRUE,
          pr |-> [pr EXCEPT !.counter = @ \cup {path},
                            !.tasks = Append(@, path)]]

\* Printer::should: [res, pr]
Should(pr, path) ==
    IF pr.timeout_modify = 0 THEN [res |-> TRUE, pr |-> pr]
    ELSE IF path \in pr.counter THEN [res |-> FALSE, pr |-> pr]
    ELSE [res |-> TRUE,
          pr |-> [pr EXCEPT !.counter = @ \cup {path},
                            !.tasks = Append(@, path)]]

\* Printer::print
PrinterPrint(pr, event) ==
    IF event.kind \in {"Unknown", "Noise", "Ignored"} THEN pr
    ELSE IF event.kind = "Modify"
    THEN LET s == Should(pr, event.path)
         IN IF ~s.res THEN s.pr
            ELSE [s.pr EXCEPT !.stdout = Append(@, event)]
    ELSE [pr EXCEPT !.stdout = Append(@, event)]

InitPrint ==
    /\ fs = Tree(Free, Free)
    /\ kw = EmptyMap
    /\ nextWd = 1
    /\ cookie = 1
    /\ queue = <<>>
    /\ kpend = <<>>
    /\ ops = 0
    /\ pc = "print"
    /\ opts = "Include"
    /\ top_wd = NoWd
    /\ top_dir = <<NameR>>
    /\ path_tree = HeadNew(<<NameR>>)
    /\ cached = NoRec
    /\ walk = NoWalk
    /\ out = <<>>
    /\ last = NoLast
    /\ \E timeout \in Timeouts : printer = PrinterNew(timeout)

Prints(hist) == Len(SelectSeq(hist, LAMBDA h : h.op = "print"))

\* The consumer of the stream hands the next event to the printer.
PrintEvent(event) ==
    /\ pc = "print"
    /\ Prints(printer.hist) < MaxPrints
    /\ LET pr == PrinterPrint(printer, event)
       IN printer' = [pr EXCEPT !.hist =
                         Append(@, [op |-> "print", ev |-> event,
                                    shown |-> pr.stdout # printer.stdout])]
    /\ UNCHANGED <<fs, kw, nextWd, cookie, queue, kpend, ops, pc, opts,
                   top_wd, top_dir, path_tree, cached, walk, out, last>>

\* The sleep of the j-th timer task is over: the task removes its path.
TimerFire(j) ==
    /\ pc = "print"
    /\ j \in 1 .. Len(printer.tasks)
    /\ LET path == printer.tasks[j]
       IN printer' =
             [printer EXCEPT
                !.counter = @ \ {path},
                !.tasks = SubSeq(@, 1, j - 1) \o SubSeq(@, j + 1, Len(@)),
                !.hist = Append(@, [op |-> "fire",
                                    ev |-> Ev("None", path, NoPath, "-"),
                                    shown |-> FALSE])]
    /\ UNCHANGED <<fs, kw, nextWd, cookie, queue, kpend, ops, pc, opts,
                   top_wd, top_dir, path_tree, cached, walk, out, last>>

NextPrint ==
    \/ \E event \in PrintEvents : PrintEvent(event)
    \/ \E j \in 1 .. MaxPrints : TimerFire(j)

SpecPrint == InitPrint /\ [][NextPrint]_vars

(***************************************************************************)
(* Properties.                                                             *)
(***************************************************************************)
\* The recognizer took a record in this step.
Took == CanStep /\ last'.tick # last.tick

\* The step yielded exactly the event ev (after the walk, when it has one).
Reported(ev) ==
    /\ last'.act # "panic"
    /\ last'.ev = ev
    /\ pc' = "idle" => out' = <<ev>>

\* The decoder holds MOVED_FROM, MOVED_TO with its cookie, MOVE_SELF.
MoveTriple ==
    /\ TakenRec.kind = "MoveFrom"
    /\ Len(RestQueue) >= 2
    /\ RestQueue[1].kind = "MoveTo"
    /\ RestQueue[1].cookie = TakenRec.cookie
    /\ RestQueue[2].kind = "MoveSelf"

MoveTripleDone ==
    LET a == TakenRec
        b == RestQueue[1]
        w == RestQueue[2].wd
    IN /\ Has(path_tree, a.wd)
       /\ Has(path_tree, b.wd)
       /\ LET from == FullPath(path_tree, a.wd, a.name)
              to == FullPath(path_tree, b.wd, b.name)
          IN /\ Reported(Ev("Move", from, to, "Dir"))
             /\ (Guard(opts, from, "Dir") /\ Guard(opts, to, "Dir"))
                   => /\ Has(path_tree', w)
                      /\ HeadPath(path_tree', w) = to

\* C1: MOVED_FROM(A, X, C) followed at once by MOVED_TO(B, Y, C) and then
\* MOVE_SELF(W') is reported as exactly one Move(path(A)/X, path(B)/Y, Dir),
\* and when both basenames are admitted the registry renames W' so that
\* path(W') = path(B)/Y under the same watch id.
C1_MoveDir == [][(Took /\ MoveTriple) => MoveTripleDone]_vars

\* The records the kernel has produced and the recognizer has not taken.
Stream == RestQueue \o kpend

\* C2: a rename (MOVED_FROM whose MOVED_TO partner follows in the kernel's
\* stream) is reported as a Move and never as a MoveAway followed by a
\* MoveInto, at whatever moment the queue is polled.
C2_RenameNotSplit ==
    [][(/\ Took
        /\ TakenRec.kind = "MoveFrom"
        /\ Stream # <<>>
        /\ Stream[1].kind = "MoveTo"
        /\ Stream[1].cookie = TakenRec.cookie
        /\ last'.act # "panic")
       => last'.ev.kind = "Move"]_vars

\* The watch ids the registry holds at or beneath the node of w.
Subtree(pt, w) == IF Has(pt, w) THEN Closure(pt.nodes, {w}) ELSE {w}

\* C3: when the registry renames W' from old root path R to R', every
\* descendant w of W' has afterwards path(w) = R' / relpath(path(w), R).
C3_RenameSubtree ==
    [][(last'.tick # last.tick /\ last'.act = "rename")
       => \A w \in Subtree(path_tree, last'.wd) :
             /\ Has(path_tree', w)
             /\ HeadPath(path_tree', w) =
                   last'.ev.to \o StripPrefix(HeadPath(path_tree, last'.wd),
                                              HeadPath(path_tree, w))]_vars

Quiet == pc = "idle" /\ queue = <<>> /\ kpend = <<>> /\ cached = NoRec

\* C4: the registry is a bijection between watch ids and paths: the paths
\* of the registered ids are pairwise distinct, and once every record is
\* handled the registry holds as many ids as the kernel holds watches.
C4_Bijection ==
    Quiet =>
       /\ \A v, w \in path_tree.table :
             HeadPath(path_tree, v) = HeadPath(path_tree, w) => v = w
       /\ Cardinality(path_tree.table) = Cardinality(DOMAIN kw)

\* The registry and the kernel no longer hold any watch id of S.
Uninstalled(S) ==
    \A w \in S : ~Has(path_tree', w) /\ w \notin DOMAIN kw'

\* C5: MOVED_FROM(A, X) followed by MOVE_SELF(W') with W' not the root is
\* reported as MoveAway(path(A)/X, Dir), and W' with every descendant is
\* removed from the registry and unregistered from the kernel, so that no
\* record of theirs is reported afterwards.
C5_MoveAwayDir ==
    [][(/\ Took
        /\ TakenRec.kind = "MoveFrom"
        /\ RestQueue # <<>>
        /\ RestQueue[1].kind = "MoveSelf"
        /\ RestQueue[1].wd # top_wd
        /\ Has(path_tree, TakenRec.wd))
       => /\ Reported(Ev("MoveAway",
                         FullPath(path_tree, TakenRec.wd, TakenRec.name),
                         NoPath, "Dir"))
          /\ Uninstalled(Subtree(path_tree, RestQueue[1].wd))]_vars

\* C6: DELETE(A, X) followed by DELETE_SELF(W') with W' not the root is
\* reported as Delete(path(A)/X, Dir) and uninstalls W' and its
\* descendants; a DELETE that no DELETE_SELF follows is reported as Delete
\* with the record's file type and changes no watch.
C6_DeleteDir ==
    [][(Took /\ TakenRec.kind = "Delete" /\ Has(path_tree, TakenRec.wd))
       => /\ (/\ RestQueue # <<>>
              /\ RestQueue[1].kind = "DeleteSelf"
              /\ RestQueue[1].wd # top_wd)
                => /\ Reported(Ev("Delete",
                                  FullPath(path_tree, TakenRec.wd,
                                           TakenRec.name),
                                  NoPath, "Dir"))
                   /\ Uninstalled(Subtree(path_tree, RestQueue[1].wd))
          /\ (Stream = <<>> \/ Stream[1].kind # "DeleteSelf")
                => /\ Reported(Ev("Delete",
                                  FullPath(path_tree, TakenRec.wd,
                                           TakenRec.name),
                                  NoPath, FT(TakenRec.dir)))
                   /\ path_tree'.table = path_tree.table
                   /\ kw' = kw]_vars

Creates(entries) ==
    [j \in 1 .. Len(entries) |-> Ev("Create", entries[j], NoPath, "Dir")]

\* The registry maps a watch id to path p and the kernel watches with it
\* the directory that is at p.
Installed(pt, k, f, p) ==
    \E w \in pt.table :
       /\ HeadPath(pt, w) = p
       /\ w \in DOMAIN k
       /\ k[w] = Resolve(f, Outside, p)

\* C7: a CREATE record for an admitted directory D yields Create(D, Dir)
\* followed at once by one Create(d, Dir) per admitted descendant found by
\* the walk of D, parents first, before the event of any later record, and
\* D and each walked descendant have their watch installed.
C7_CreateDirWalk ==
    [][(pc = "walk" /\ walk.creates /\ pc' # "walk")
       => /\ pc' = "idle"
          /\ \E entries \in WalkDir(opts, fs, walk.path) :
                /\ out' = <<walk.ev>> \o Creates(entries)
                /\ \A j \in 1 .. Len(entries) :
                      /\ Installed(path_tree', kw', fs, entries[j])
                      /\ \A i \in 1 .. Len(entries) :
                            IsPrefix(entries[i], entries[j]) => i <= j
                /\ Metadata(fs, walk.path) = "dir"
                      => Installed(path_tree', kw', fs, walk.path)]_vars

\* C8: a created directory is reported created once: the recognizer never
\* yields a Create(p, Dir) that the step before it has just yielded, also
\* when p was made while the watch of its parent was being installed.
C8_CreateOnce ==
    [][(Took /\ last'.act # "panic")
       => \A j \in 1 .. Len(out) :
             (out[j].kind = "Create" /\ out[j].ft = "Dir")
                => last'.ev # out[j]]_vars

Dot(name) == name[1] = "."
\* A segment of p below the root, other than the last one, begins with '.'.
DotAncestor(p) == \E j \in 2 .. Len(p) - 1 : Dot(p[j])
DotSegment(p) == \E j \in 2 .. Len(p) : Dot(p[j])
\* The path of inode i from the root downwards, <<>> when it is outside.
RECURSIVE InodePath(_, _)
InodePath(f, i) ==
    IF i = RootIno THEN <<f[i].name>>
    ELSE IF i \in Inodes /\ f[i].par \in Inodes
    THEN LET pp == InodePath(f, f[i].par)
         IN IF pp = <<>> THEN <<>> ELSE Append(pp, f[i].name)
    ELSE <<>>

\* C9: with dot-directories excluded no emitted event has a path with an
\* ancestor segment (below the root) beginning with '.', and no watch is
\* installed on a dot-directory or beneath one: a new kernel watch is never
\* on such a directory and the registry never holds such a path.
C9_DotExclusion ==
    [][opts = "Exclude" =>
          /\ \A j \in 1 .. Len(out') :
                ~DotAncestor(out'[j].path) /\ ~DotAncestor(out'[j].to)
          /\ \A w \in path_tree'.table :
                ~DotSegment(HeadPath(path_tree', w))
          /\ \A w \in DOMAIN kw' \ DOMAIN kw :
                ~DotSegment(InodePath(fs', kw'[w]))]_vars

\* A dot-directory was made under a watched directory: its Create is
\* reported, it exists, and it has no watch.
C9_Witness ==
    /\ opts = "Exclude"
    /\ pc = "idle"
    /\ out # <<>>
    /\ out[1].kind = "Create"
    /\ out[1].ft = "Dir"
    /\ Dot(FileName(out[1].path))
    /\ Metadata(fs, out[1].path) = "dir"
    /\ ~Installed(path_tree, kw, fs, out[1].path)

\* C10: with dot-directories excluded, the rename of a watched directory
\* to a name beginning with '.' (MOVED_FROM, MOVED_TO and MOVE_SELF, all
\* three readable) is reported as Move(old, new, Dir) and the watch of the
\* directory and of each descendant is uninstalled.
C10_MoveToDot ==
    [][(/\ Took
        /\ opts = "Exclude"
        /\ MoveTriple
        /\ ~Dot(TakenRec.name)
        /\ Dot(RestQueue[1].name))
       => /\ Has(path_tree, TakenRec.wd)
          /\ Has(path_tree, RestQueue[1].wd)
          /\ Reported(Ev("Move",
                         FullPath(path_tree, TakenRec.wd, TakenRec.name),
                         FullPath(path_tree, RestQueue[1].wd,
                                  RestQueue[1].name), "Dir"))
          /\ Uninstalled(Subtree(path_tree, RestQueue[2].wd))]_vars

\* The decoder or the kernel holds the MOVED_TO partner of the MOVED_FROM
\* taken, for a directory renamed from a dot-name to a plain name.
DotToPlain ==
    /\ opts = "Exclude"
    /\ TakenRec.kind = "MoveFrom"
    /\ TakenRec.dir
    /\ Dot(TakenRec.name)
    /\ Stream # <<>>
    /\ Stream[1].kind = "MoveTo"
    /\ Stream[1].cookie = TakenRec.cookie
    /\ ~Dot(Stream[1].name)
    /\ Has(path_tree, TakenRec.wd)
    /\ Has(path_tree, Stream[1].wd)

\* Path p, when it is a directory, and every entry a walk of p finds have
\* their watch installed.
TreeInstalled(pt, k, f, p) ==
    Metadata(f, p) = "dir"
       => /\ Installed(pt, k, f, p)
          /\ \A entries \in WalkDir(opts, f, p) :
                \A j \in 1 .. Len(entries) : Installed(pt, k, f, entries[j])

\* C11: with dot-directories excluded, the rename of a dot-named directory
\* to a plain name inside the tree is reported as Move(old, new, Dir), and
\* the walk that follows installs a watch on the directory and on each
\* admitted descendant before the Move is yielded.
C11_RewatchDot ==
    [][/\ (Took /\ DotToPlain)
          => /\ last'.act # "panic"
             /\ last'.ev = Ev("Move",
                              FullPath(path_tree, TakenRec.wd, TakenRec.name),
                              FullPath(path_tree, Stream[1].wd,
                                       Stream[1].name), "Dir")
             /\ pc' = "walk"
       /\ (pc = "walk" /\ walk.ev.kind = "Move" /\ pc' # "walk")
          => /\ pc' = "idle"
             /\ out' = <<walk.ev>>
             /\ TreeInstalled(path_tree', kw', fs, walk.path)]_vars

\* The root has its watch: the registry maps top_wd to top_dir and the
\* kernel watches the root directory with it.
RootInstalled(pt, k, tw) ==
    /\ tw # NoWd
    /\ Has(pt, tw)
    /\ HeadPath(pt, tw) = top_dir
    /\ tw \in DOMAIN k
    /\ k[tw] = RootIno

\* C12: whatever the name of the root directory, a dot-name under exclusion
\* too, the construction installs the root watch, and a CREATE record for an
\* entry directly inside the watched root is reported as
\* Create(top_dir/name).
C12_RootAdmitted ==
    [][/\ (pc = "new" /\ pc' # "new" /\ Metadata(fs, top_dir) = "dir")
          => RootInstalled(path_tree', kw', top_wd')
       /\ (/\ Took
           /\ TakenRec.kind = "Create"
           /\ TakenRec.wd = top_wd
           /\ RootInstalled(path_tree, kw, top_wd))
          => /\ last'.act # "panic"
             /\ last'.ev = Ev("Create", Append(top_dir, TakenRec.name),
                              NoPath, FT(TakenRec.dir))
             /\ pc' = "idle" => out' = <<last'.ev>>]_vars

\* Under exclusion a Create inside the dot-named root has been reported.
C12_Witness ==
    /\ opts = "Exclude"
    /\ Dot(top_dir[1])
    /\ pc = "idle"
    /\ out # <<>>
    /\ out[1].kind = "Create"
    /\ PathParent(out[1].path) = top_dir
    /\ RootInstalled(path_tree, kw, top_wd)

\* A rename into a watched directory still awaits the recognizer (its
\* Move will bring the registry up to date).
PendingMoveTo ==
    \/ cached.kind = "MoveTo"
    \/ \E j \in 1 .. Len(queue \o kpend) : (queue \o kpend)[j].kind = "MoveTo"

\* C13: a MOVED_TO record taken on its own, on a registered watch W with
\* name N, is reported as MoveInto(path(W)/N, ft); when the entry is an
\* admitted directory the walk installs a watch on it and on each admitted
\* descendant (unless a rename into the tree is still to be recognized)
\* and yields the MoveInto alone, without any Create.
C13_MoveIntoDir ==
    [][/\ (Took /\ TakenRec.kind = "MoveTo" /\ Has(path_tree, TakenRec.wd))
          => /\ last'.act # "panic"
             /\ last'.ev = Ev("MoveInto",
                              FullPath(path_tree, TakenRec.wd, TakenRec.name),
                              NoPath, FT(TakenRec.dir))
             /\ pc' = "idle" => out' = <<last'.ev>>
       /\ (pc = "walk" /\ walk.ev.kind = "MoveInto" /\ pc' # "walk")
          => /\ pc' = "idle"
             /\ out' = <<walk.ev>>
             /\ ~PendingMoveTo
                   => TreeInstalled(path_tree', kw', fs, walk.path)]_vars

\* The directories at or beneath the root that the policy admits: under
\* exclusion those with no dot-named segment below the root.
Admitted(f) ==
    {i \in Inodes : /\ Exists(f, i)
                    /\ f[i].dir
                    /\ Under(f, RootIno, i)
                    /\ opts = "Exclude" => ~DotSegment(InodePath(f, i))}

C15_DeleteTopLast ==
    [][(last.ev.kind = "DeleteTop" /\ last.act # "panic" /\ Took)
       => out' = <<>>]_vars

\* The decoder holds DELETE(A, X), A a registered watch, followed by
\* DELETE_SELF(top_wd).
DeleteThenTop ==
    /\ TakenRec.kind = "Delete"
    /\ Has(path_tree, TakenRec.wd)
    /\ RestQueue # <<>>
    /\ RestQueue[1].kind = "DeleteSelf"
    /\ RestQueue[1].wd = top_wd

\* The DELETE_SELF of the root is taken from the cache: DeleteTop(top_dir)
\* is reported and no watch is left in the registry or in the kernel.
CachedTopDone ==
    (Took /\ cached.kind = "DeleteSelf" /\ cached.wd = top_wd)
       => /\ Reported(Ev("DeleteTop", top_dir, NoPath, "-"))
          /\ path_tree'.table = {}
          /\ DOMAIN kw' = {}

\* C16 as stated: DELETE(A, X) followed by DELETE_SELF(top_wd) is reported
\* as Delete(path(A)/X, File) with the DELETE_SELF kept in the cache, and
\* the next event is DeleteTop(top_dir), after which no watch is left.
C16_DeleteThenTopFile ==
    [][/\ (Took /\ DeleteThenTop)
          => /\ Reported(Ev("Delete",
                            FullPath(path_tree, TakenRec.wd, TakenRec.name),
                            NoPath, "File"))
             /\ cached' = RestQueue[1]
       /\ CachedTopDone]_vars

\* C16 amended: the Delete carries the file type of the DELETE record (Dir
\* for an unwatched directory); the DELETE_SELF is kept in the cache and
\* the next event is DeleteTop(top_dir), after which no watch is left.
C16_DeleteThenTop ==
    [][/\ (Took /\ DeleteThenTop)
          => /\ Reported(Ev("Delete",
                            FullPath(path_tree, TakenRec.wd, TakenRec.name),
                            NoPath, FT(TakenRec.dir)))
             /\ cached' = RestQueue[1]
       /\ CachedTopDone]_vars

\* A Delete has been reported and the DELETE_SELF of the root that
\* followed its record waits in the cache.
C16_Witness ==
    /\ pc = "idle"
    /\ cached.kind = "DeleteSelf"
    /\ cached.wd = top_wd
    /\ Len(out) = 1
    /\ out[1].kind = "Delete"

\* C17: a Top event comes only from a _SELF record of the root watch:
\* DeleteTop only from DELETE_SELF(top_wd), MoveTop only from
\* MOVE_SELF(top_wd); a _SELF record of another watch taken as the head
\* record never yields a Top event.
C17_TopOnlyForRoot ==
    [][(Took /\ last'.act # "panic"
             /\ last'.ev.kind \in {"DeleteTop", "MoveTop"})
       => TakenRec.wd = top_wd]_vars

\* The step reports MoveTop for the MOVE_SELF of the root watch.
MoveTopStep ==
    /\ Took
    /\ TakenRec.kind = "MoveSelf"
    /\ TakenRec.wd = top_wd
    /\ last'.act # "panic"
    /\ last'.ev.kind = "MoveTop"

\* C18 as stated: when MoveTop is emitted the whole tree is deleted, no
\* watch id is left in the registry or in the kernel, as for DeleteTop.
C18_MoveTopDeletesTree ==
    [][MoveTopStep => path_tree'.table = {} /\ DOMAIN kw' = {}]_vars

\* C18 amended: when MoveTop is emitted nothing is uninstalled: the
\* registry and the kernel's watches are left exactly as they were.
C18_MoveTopKeepsTree ==
    [][MoveTopStep => path_tree' = path_tree /\ kw' = kw]_vars

\* MoveTop was yielded for the root and the registry still holds the root
\* and a descendant, both watched by the kernel.
C18_Witness ==
    /\ pc = "idle"
    /\ out = <<Ev("MoveTop", top_dir, NoPath, "-")>>
    /\ last.head.wd = top_wd
    /\ Has(path_tree, top_wd)
    /\ \E w \in path_tree.table : w # top_wd /\ w \in DOMAIN kw

\* C19: MoveTop is a warning: the step that yields it leaves the observer
\* running with top_dir and the registry as they were; the record taken
\* next on a registered watch is recognized (a CREATE or a lone MOVED_TO
\* always, the compound patterns whenever their arm does not panic) and
\* the event is reported with a path built from the stale prefix top_dir.
C19_StaleRoot ==
    [][/\ (Took /\ TakenRec.kind = "MoveSelf" /\ TakenRec.wd = top_wd)
          => /\ Reported(Ev("MoveTop", top_dir, NoPath, "-"))
             /\ pc' = "idle"
             /\ top_dir' = top_dir
             /\ path_tree'.table = path_tree.table
       /\ (/\ Took
           /\ last.ev.kind = "MoveTop"
           /\ last.head.wd = top_wd
           /\ TakenRec.kind \in {"Create", "Delete", "MoveFrom", "MoveTo"}
           /\ Has(path_tree, TakenRec.wd))
          => /\ TakenRec.kind \in {"Create", "MoveTo"} => last'.act # "panic"
             /\ last'.act # "panic"
                   => /\ last'.ev.path = Append(HeadPath(path_tree, TakenRec.wd),
                                                TakenRec.name)
                      /\ IsPrefix(top_dir, last'.ev.path)
                      /\ <<fs[RootIno].name>> # top_dir]_vars

\* MoveTop was yielded, the root is elsewhere, and a record made beneath
\* the moved root waits on a registered watch.
C19_Witness ==
    /\ pc = "idle"
    /\ out = <<Ev("MoveTop", top_dir, NoPath, "-")>>
    /\ last.head.wd = top_wd
    /\ fs[RootIno].name = NameS
    /\ queue # <<>>
    /\ queue[1].kind \in {"Create", "Delete", "MoveFrom", "MoveTo"}
    /\ Has(path_tree, queue[1].wd)

\* C20: an UNMOUNT record on top_wd is reported as UnmountTop(top_dir) and
\* the whole tree is uninstalled; an UNMOUNT record on another watch W is
\* reported as Unmount(path(W), Dir) and W with its descendants is removed
\* from the registry and unregistered, in whatever order the kernel
\* delivers the UNMOUNT records of one unmounted subtree.
C20_Unmount ==
    [][(Took /\ TakenRec.kind = "Unmount")
       => IF TakenRec.wd = top_wd
          THEN /\ Reported(Ev("UnmountTop", top_dir, NoPath, "-"))
               /\ path_tree'.table = {}
               /\ DOMAIN kw' = {}
          ELSE /\ Has(path_tree, TakenRec.wd)
               /\ Reported(Ev("Unmount", HeadPath(path_tree, TakenRec.wd),
                              NoPath, "Dir"))
               /\ Uninstalled(Subtree(path_tree, TakenRec.wd))]_vars

\* C21: when the recognizer takes the IN_Q_OVERFLOW record, the consumer is
\* handed an Overflow event in that very step, at the place of the loss.
C21_Overflow ==
    [][Took /\ TakenRec = Overflow
          => out' = <<Ev("Overflow", NoPath, NoPath, "-")>>]_vars

\* C22: Noise is never handed to the consumer, and every other event is.  A
\* name-less ACCESS/ATTRIB/OPEN/CLOSE record on a watch other than top_wd is
\* skipped without an event and without a change of the registry, on top_wd
\* it is reported as AccessTop/AttribTop/OpenTop/CloseTop(top_dir), and one
\* with a name N on a registered watch W is reported as
\* Access/Attrib/Open/Close(path(W)/N, ft); IGNORED and unknown records are
\* reported as Ignored and Unknown.
ExtraReport(e) ==
    IF e.name # NoName
    THEN Ev(e.kind, Append(HeadPath(path_tree, e.wd), e.name), NoPath,
            FT(e.dir))
    ELSE Ev(TopOf(e.kind), top_dir, NoPath, "-")

C22_NoiseSuppressed ==
    [][/\ \A j \in 1 .. Len(out') : out'[j].kind # "Noise"
       /\ Took =>
            LET e == TakenRec
            IN /\ e.kind \in ExtraKinds /\ e.name = NoName /\ e.wd # top_wd
                    => /\ out' = <<>>
                       /\ pc' = "idle"
                       /\ path_tree' = path_tree /\ kw' = kw
               /\ e.kind \in ExtraKinds /\ e.name = NoName /\ e.wd = top_wd
                    => out' = <<ExtraReport(e)>>
               /\ e.kind \in ExtraKinds /\ e.name # NoName
                     /\ Has(path_tree, e.wd)
                    => out' = <<ExtraReport(e)>>
               /\ e.kind = "Ignored"
                    => out' = <<Ev("Ignored", NoPath, NoPath, "-")>>
               /\ e = Overflow
                    => out' = <<Ev("Unknown", NoPath, NoPath, "-")>>]_vars

\* A name-less record on a watch below the root has just been skipped, and
\* the named record of the same call was reported before it.
C22_Witness ==
    /\ last.act = "noise"
    /\ last.head.kind \in ExtraKinds /\ last.head.name = NoName
    /\ last.head.wd # top_wd
    /\ out = <<>>

\* The records not yet recognized, in the order the kernel delivered them:
\* the one in the cache, then those the decoder holds.
Pending == (IF cached = NoRec THEN <<>> ELSE <<cached>>) \o queue
Opt(rec) == IF rec = NoRec THEN <<>> ELSE <<rec>>

\* C23: records are recognized in the order of their delivery: a step of the
\* recognizer reads a prefix of the pending records (the cached one first),
\* returns at most the last record it read to the cache, leaves the others
\* in their order with new records only behind them, and what it yields
\* begins with the event of the first record it read; the yields of a walk
\* begin with the event of the record that started it and read no record.
C23_Order ==
    [][/\ Took /\ pc' # "panic" =>
            LET Read == <<last'.head>> \o Opt(last'.n1) \o Opt(last'.n2)
                Rest == SubSeq(Pending, Len(Read) + 1, Len(Pending))
            IN /\ Len(Read) <= Len(Pending)
               /\ Read = SubSeq(Pending, 1, Len(Read))
               /\ cached' # NoRec => Len(Read) > 1 /\ cached' = Read[Len(Read)]
               /\ IsPrefix(Rest, queue')
               /\ out' # <<>> => out'[1] = last'.ev
               /\ out' = <<>> => pc' = "walk" \/ last'.ev.kind = "Noise"
       /\ ~Took => /\ IsPrefix(Pending, Pending')
                   /\ pc = "walk" /\ pc' = "idle" => out'[1] = last.ev]_vars

\* A step has yielded its event and returned the record it peeked to the
\* cache while the decoder holds records delivered after it.
C23_Witness ==
    /\ pc = "idle"
    /\ cached # NoRec /\ cached = last.n1
    /\ queue # <<>>
    /\ out = <<last.ev>>

\* MOVED_FROM on a registered watch was taken, the MOVED_TO of the same
\* cookie on a registered watch was read after it, and the record peeked
\* then, if there was one, is not MOVE_SELF.
MovePair ==
    /\ Took
    /\ TakenRec.kind = "MoveFrom" /\ Has(path_tree, TakenRec.wd)
    /\ last'.n1.kind = "MoveTo" /\ last'.n1.cookie = TakenRec.cookie
    /\ Has(path_tree, last'.n1.wd)
    /\ last'.n2.kind # "MoveSelf"

MovePairEvent(ft) ==
    Ev("Move", Append(HeadPath(path_tree, TakenRec.wd), TakenRec.name),
       Append(HeadPath(path_tree, last'.n1.wd), last'.n1.name), ft)

\* C24: MOVED_FROM(A, X, C) followed by MOVED_TO(B, Y, C) with no MOVE_SELF
\* peeked after them is reported as Move(path(A)/X, path(B)/Y, File); no
\* watch and no registry entry changes, and the record that was peeked is
\* in the cache, to be the head of the next event.
C24_MoveFile ==
    [][MovePair =>
          /\ out' = <<MovePairEvent("File")>>
          /\ kw' = kw /\ path_tree' = path_tree
          /\ cached' = last'.n2]_vars

\* MOVED_FROM of a file on a registered watch was taken and no MOVED_TO of
\* its cookie came after it: nothing was readable, or the record read is of
\* another kind, or it is a MOVED_TO of another rename.
MoveOutFile ==
    /\ Took
    /\ TakenRec.kind = "MoveFrom" /\ ~TakenRec.dir
    /\ Has(path_tree, TakenRec.wd)
    /\ \/ last'.n1 = NoRec
       \/ last'.n1.kind \notin {"MoveTo", "MoveSelf"}
       \/ last'.n1.kind = "MoveTo" /\ last'.n1.cookie # TakenRec.cookie

\* C25: a MOVED_FROM(A, X) without its MOVED_TO is reported as
\* MoveAway(path(A)/X, File), and the record that was peeked is in the cache,
\* to be recognized next (a MOVED_TO of another rename thus gives MoveInto
\* after the MoveAway).  Stated for the MOVED_FROM of a file.
C25_MoveAwayFile ==
    [][MoveOutFile =>
          /\ out' = <<Ev("MoveAway",
                         Append(HeadPath(path_tree, TakenRec.wd),
                                TakenRec.name), NoPath, "File")>>
          /\ cached' = last'.n1]_vars

\* The last step renamed the watched directory W in the registry for the
\* triple MOVED_FROM(A, X), MOVED_TO(B, Y), MOVE_SELF(W), and the records
\* now taken are the triple of the rename back: MOVED_FROM(B, Y),
\* MOVED_TO(A, X), MOVE_SELF(W).
RenameBack ==
    /\ Took /\ MoveTriple
    /\ last.act = "rename"
    /\ TakenRec.wd = last.n1.wd /\ TakenRec.name = last.n1.name
    /\ RestQueue[1].wd = last.head.wd /\ RestQueue[1].name = last.head.name
    /\ RestQueue[2].wd = last.wd

RootFails ==
    /\ pc = "new"
    /\ AddWatch(fs, path_tree, kw, nextWd, top_dir).res = "AddWatch"

\* C27: when the watch on the root cannot be installed, Watcher::new returns
\* the error: no observer comes to exist whose stream can be polled.
C27_RootError ==
    [][RootFails => pc' \notin {"idle", "walk"}]_vars

\* C28: a walk in which the installation of a watch fails goes on: it does
\* not reach an insert whose parent node is missing (the unwrap at the end
\* of add_watch does not panic), and the observer keeps running.
C28_WalkSurvives ==
    [][\/ pc = "walk" /\ pc' # "walk"
       \/ pc = "new" /\ pc' # "new"
       => pc' = "idle"]_vars

\* The step is a call of insert(path, wd).
Inserted == pc = "reg" /\ nextWd' # nextWd
InsertOk == last'.act = "insert"

RootAtPrefix(pt) == pt.tree = NoWd \/ pt.nodes[pt.tree].key = pt.prefix

\* The step is a call of delete(wd) that returned Ok, on a registry whose
\* root is the prefix.
Deleted ==
    /\ pc = "reg" /\ last'.tick # last.tick /\ last'.act = "delete"
    /\ RootAtPrefix(path_tree)

\* vals lists the ids of S once each, the first being wd, and every id is
\* followed at once by the ids beneath it.
PreOrder(nodes, vals, S, wd) ==
    /\ Len(vals) = Cardinality(S)
    /\ {vals[j] : j \in 1 .. Len(vals)} = S
    /\ vals[1] = wd
    /\ \A i \in 1 .. Len(vals) :
          LET below == Closure(nodes, {vals[i]})
          IN /\ i + Cardinality(below) - 1 <= Len(vals)
             /\ {vals[j] : j \in i .. i + Cardinality(below) - 1} = below

\* C30: delete(wd) returns the ids of the subtree at the node of wd, each
\* once and in pre-order with wd first; afterwards exactly these ids are
\* gone from the registry and every other id has the path it had; the
\* delete of the root's id leaves the registry empty.
C30_Delete ==
    [][Deleted =>
          \A d \in HeadDeleteAll(path_tree, last'.wd) :
             d.pt = path_tree' =>
                LET S == Subtree(path_tree, last'.wd)
                IN /\ PreOrder(path_tree.nodes, d.vals, S, last'.wd)
                   /\ path_tree'.table = path_tree.table \ S
                   /\ \A w \in path_tree'.table :
                         HeadPath(path_tree', w) = HeadPath(path_tree, w)
                   /\ last'.wd = path_tree.tree
                         => path_tree'.table = {} /\ path_tree'.tree = NoWd]_vars

\* The step is a call of delete(wd) or rename(wd, new_path) with a watch id
\* the registry does not hold.
UnknownValue ==
    /\ pc = "reg" /\ last'.tick # last.tick /\ nextWd' = nextWd
    /\ ~Has(path_tree, last'.wd)

\* C31: delete(wd) and rename(wd, new_path) called with a watch id that is
\* not in the registry return ValueNotFound and leave the registry as it
\* was.
C31_ValueNotFound ==
    [][UnknownValue =>
          /\ last'.act = "ValueNotFound"
          /\ path_tree' = path_tree]_vars

\* rename was called on a registry that holds ids, with an id that was
\* handed out before and is no longer registered.
C31_Witness ==
    /\ pc = "reg"
    /\ last.act = "ValueNotFound" /\ last.ev.to # NoPath
    /\ last.wd < nextWd
    /\ path_tree.table # {}

\* A Modify of the path of call j was written by an earlier call and no
\* timer task of that path has run since.
Debounced(hist, j) ==
    \E i \in 1 .. j - 1 :
       /\ hist[i].op = "print" /\ hist[i].shown
       /\ hist[i].ev = hist[j].ev
       /\ \A k \in i + 1 .. j - 1 :
             ~(hist[k].op = "fire" /\ hist[k].ev.path = hist[j].ev.path)

\* C32: with a non-zero window, a Modify(path) is suppressed exactly when a
\* Modify of the same path was printed before and the timer task started
\* for it has not yet removed the path; a Modify printed for another path
\* suppresses nothing; with a zero window every Modify is printed.
C32_Debounce ==
    \A j \in 1 .. Len(printer.hist) :
       LET h == printer.hist[j]
       IN (h.op = "print" /\ h.ev.kind = "Modify") =>
             IF printer.timeout_modify = 0 THEN h.shown
             ELSE h.shown <=> ~Debounced(printer.hist, j)

\* Modify(R/a) was printed, a second one suppressed, Modify(R/b) printed
\* meanwhile, and after the timer task of R/a ran Modify(R/a) was printed
\* again.
C32_Witness ==
    /\ printer.timeout_modify # 0
    /\ Len(printer.hist) = 5
    /\ LET h == printer.hist
           a == Ev("Modify", <<NameR, NameA>>, NoPath, "File")
           b == Ev("Modify", <<NameR, NameB>>, NoPath, "File")
       IN /\ h[1].ev = a /\ h[1].shown
          /\ h[2].ev = a /\ ~h[2].shown
          /\ h[3].ev = b /\ h[3].shown
          /\ h[4].op = "fire" /\ h[4].ev.path = <<NameR, NameA>>
          /\ h[5].ev = a /\ h[5].shown
          /\ printer.stdout = <<a, b, a>>

\* The records the step read from the decoder after its head record.
ReadAfter == Opt(last'.n1) \o Opt(last'.n2)

\* C33: the cache holds at most one record.  A record in the cache is the
\* head of the next recognition, which finds the cache empty: what that
\* recognition leaves in the cache is nothing or the one record it read
\* last from the decoder, never the head and never the record it found.
\* Nothing else writes the cache.  A MOVED_FROM taken as head has its Move
\* or MoveAway in the same recognition: none waits for a later record.
C33_OneSlot ==
    [][/\ Took =>
            /\ last'.hit = (cached # NoRec)
            /\ cached # NoRec => last'.head = cached
            /\ cached' # NoRec =>
                  /\ ReadAfter # <<>>
                  /\ IsPrefix(ReadAfter, RestQueue)
                  /\ cached' = ReadAfter[Len(ReadAfter)]
            /\ (TakenRec.kind = "MoveFrom" /\ last'.act # "panic") =>
                  /\ last'.ev.kind \in {"Move", "MoveAway"}
                  /\ last'.ev.path = Append(HeadPath(path_tree, TakenRec.wd),
                                            TakenRec.name)
                  /\ pc' = "idle" => out' = <<last'.ev>>
       /\ ~Took => cached' = cached]_vars

\* A MOVED_FROM left in the cache by one recognition was the head of the
\* next, which read the record after it, yielded the event of the rename
\* and left the cache empty.
C33_Witness ==
    /\ pc = "idle"
    /\ last.hit /\ last.head.kind = "MoveFrom"
    /\ last.n1 # NoRec
    /\ last.ev.kind \in {"Move", "MoveAway"}
    /\ cached = NoRec
    /\ out = <<last.ev>>

\* The step is a call of rename(wd, new_path).
Renamed ==
    /\ pc = "reg" /\ last'.tick # last.tick /\ nextWd' = nextWd
    /\ last'.ev.to # NoPath
    /\ Has(path_tree, last'.wd)

\* C34: rename(wd, new_path) leaves the set of registered watch ids as it
\* was, and leaves path(w) as it was for every watch id w that is not in
\* the subtree of the node of wd.
C34_RenameFrame ==
    [][Renamed =>
          /\ path_tree'.table = path_tree.table
          /\ \A w \in path_tree.table \ Subtree(path_tree, last'.wd) :
                HeadPath(path_tree', w) = HeadPath(path_tree, w)]_vars

\* The record rec, read as the j-th after the head, closes the compound
\* event of the head.
Closes(head, rec, j) ==
    \/ head.kind = "MoveFrom" /\ j = 1 /\ rec.kind = "MoveTo"
          /\ rec.cookie = head.cookie
    \/ head.kind = "MoveFrom" /\ rec.kind = "MoveSelf"
    \/ head.kind = "Delete" /\ j = 1 /\ rec.kind = "DeleteSelf"

\* C35: no raw record is lost or used twice.  A recognition reads the
\* pending records (the cache, then the decoder) from the front, its head
\* and at most two more; each record read after the head closes the
\* compound event of the head (MOVED_TO, MOVE_SELF, DELETE_SELF) or is the
\* last one read and is in the cache afterwards; the records not read stay
\* pending in their order behind it; between recognitions no pending
\* record goes away.
C35_NoRecordLost ==
    [][/\ (Took /\ pc' # "panic") =>
            LET Read == <<last'.head>> \o ReadAfter
                n == Len(ReadAfter)
                Used == IF cached' # NoRec THEN n - 1 ELSE n
            IN /\ n <= 2
               /\ Len(Read) <= Len(Pending)
               /\ Read = SubSeq(Pending, 1, Len(Read))
               /\ cached' # NoRec => n > 0 /\ cached' = ReadAfter[n]
               /\ \A j \in 1 .. Used : Closes(last'.head, ReadAfter[j], j)
               /\ IsPrefix(Opt(cached')
                              \o SubSeq(Pending, Len(Read) + 1, Len(Pending)),
                           Pending')
       /\ ~Took => IsPrefix(Pending, Pending')]_vars

\* A recognition read three records: MOVED_FROM, its MOVED_TO, and a third
\* that it left in the cache, with more records behind it in the decoder.
C35_Witness ==
    /\ pc = "idle"
    /\ last.head.kind = "MoveFrom" /\ last.n1.kind = "MoveTo"
    /\ last.n2 # NoRec /\ cached = last.n2
    /\ last.ev.kind = "Move"
    /\ out = <<last.ev>>

\* C36: the recognizer never looks up the path of a watch id that the
\* registry does not hold: when it takes a record, the watch id of every
\* record whose path it builds from path(wd) (CREATE, MOVED_FROM, MOVED_TO,
\* DELETE, a named ACCESS / ATTRIB / OPEN / CLOSE, UNMOUNT of a directory
\* that is not the root, and the MOVED_TO it reads after a MOVED_FROM) is
\* registered, also for records queued before the watch was removed.
C36_LiveWd == CanStep => ~Recognized.panic

\* C37: handling Move(from, to, Dir) never fails for lack of a watch id:
\* whenever the event is recognized and the basename of from is admitted
\* by the dot-directory policy, recognize returns with it the watch id of
\* the MOVE_SELF record it read, also when the moved directory had no
\* watch or its MOVE_SELF was not yet readable.
C37_MoveDirHasWd ==
    [][(/\ Took
        /\ last'.ev.kind = "Move" /\ last'.ev.ft = "Dir"
        /\ Guard(opts, last'.ev.path, "Dir"))
       => /\ last'.n2.kind = "MoveSelf"
          /\ last'.wd = last'.n2.wd /\ last'.wd # NoWd]_vars

\* C38: a rename(wd, new_path) that returns an error leaves the registry as
\* it was: the node of wd is attached where it was and path(wd) is the old
\* path.
C38_RenameFails ==
    [][(Renamed /\ last'.act # "rename") =>
          /\ path_tree' = path_tree
          /\ HeadPath(path_tree', last'.wd) = HeadPath(path_tree, last'.wd)]_vars

\* C39: the file type a MoveAway carries is that of the entry that left:
\* it is the file type of the MOVED_FROM record taken as head (Dir for a
\* directory, whose MOVE_SELF may follow), whatever record was read after
\* it.
C39_MoveAwayType ==
    [][(/\ Took
        /\ TakenRec.kind = "MoveFrom"
        /\ last'.ev.kind = "MoveAway")
       => last'.ev.ft = FT(TakenRec.dir)]_vars

\* C40: has_next_event() is true exactly when the cache holds a record or
\* the decoder has one ready, and then a request for the next event
\* delivers one without waiting for the kernel: the recognition of the
\* record taken yields an event or starts the walk that yields it, or,
\* when the record is noise, another record is at hand to go on with.
C40_HasNext ==
    [][(Took /\ pc' # "panic") =>
          \/ out' # <<>>
          \/ pc' = "walk"
          \/ cached' # NoRec \/ HasNextEvent(queue')]_vars

====
